---- MODULE Spec2Model ----
(***************************************************************************)
(* Model of the image labeling tool (two application variants: src/App.tsx *)
(* and src/unnamed/part_000).  The session (images, tagDefs, step) is held *)
(* by the App component; SetupScreen holds loadedImages and parsedTags and *)
(* ingests a spreadsheet, a pasted tag text or a session file.             *)
(*                                                                         *)
(* A JavaScript string is a sequence of one-character strings, so that     *)
(* trim, split, startsWith and the case-insensitive patterns are computed. *)
(* `undefined` (an absent key) is the one-element sequence Undefined.      *)
(***************************************************************************)
EXTENDS Naturals, Sequences, FiniteSets

VARIABLES variant, step, images, tagDefs, loadedImages, parsedTags,
          tagParseError, jsonReads, excelReads, last, pc, arg, ret

\* The application's state, and what the last handler run was
app == <<variant, step, images, tagDefs, loadedImages, parsedTags,
         tagParseError, jsonReads, excelReads, last>>

\* A single call of one operation: its argument, its result, and whether it ran
call == <<pc, arg, ret>>

vars == <<app, call>>

\* ------------------------------------------------------------ JS values

Undefined == <<"undefined">>

\* null where an object is expected (an array element that is null): reading a
\* property of it throws a TypeError
Null == [null |-> TRUE]

\* A value that is truthy and no string (a number, true, an object): calling a
\* string method on it throws a TypeError
NonString == <<"non-string">>

\* JS truthiness of a string-or-undefined value: '' and undefined are falsy.
Truthy(v) == v # Undefined /\ v # <<>>

\* typeof v === 'string'
IsString(v) == v # Undefined

OrEmpty_asIs(v) == v

\* v || ''
OrEmpty(v) == IF Truthy(v) THEN v ELSE <<>>

\* a || b
OrElse(a, b) == IF Truthy(a) THEN a ELSE b

IsWhitespace(c) == c = " "

RECURSIVE TrimStart(_)
TrimStart(s) ==
  IF s # <<>> /\ IsWhitespace(Head(s)) THEN TrimStart(Tail(s)) ELSE s

RECURSIVE TrimEnd(_)
TrimEnd(s) ==
  IF s # <<>> /\ IsWhitespace(s[Len(s)])
  THEN TrimEnd(SubSeq(s, 1, Len(s) - 1))
  ELSE s

\* String.prototype.trim
Trim(s) == TrimEnd(TrimStart(s))

\* s.split(c).pop(): what follows the last c (all of s when c does not occur)
SplitPop(s, c) ==
  LET hits == {i \in 1..Len(s) : s[i] = c}
      from == IF hits = {} THEN 0 ELSE CHOOSE i \in hits : \A j \in hits : j <= i
  IN  SubSeq(s, from + 1, Len(s))

\* s.split(c)[0]: what precedes the first c (all of s when c does not occur)
SplitFirst(s, c) ==
  LET hits == {i \in 1..Len(s) : s[i] = c}
      to == IF hits = {} THEN Len(s) + 1 ELSE CHOOSE i \in hits : \A j \in hits : i <= j
  IN  SubSeq(s, 1, to - 1)

StartsWith(s, p) == Len(s) >= Len(p) /\ SubSeq(s, 1, Len(p)) = p

Includes(s, p) ==
  \E i \in 0..Len(s) : i + Len(p) <= Len(s) /\ SubSeq(s, i + 1, i + Len(p)) = p

UpperLetters == <<"A","B","C","D","E","F","G","H","I","J","K","L","M",
                  "N","O","P","Q","R","S","T","U","V","W","X","Y","Z">>
LowerLetters == <<"a","b","c","d","e","f","g","h","i","j","k","l","m",
                  "n","o","p","q","r","s","t","u","v","w","x","y","z">>

LowerChar(c) ==
  IF \E i \in 1..Len(UpperLetters) : UpperLetters[i] = c
  THEN LowerLetters[CHOOSE i \in 1..Len(UpperLetters) : UpperLetters[i] = c]
  ELSE c

ToLowerCase(s) == [i \in 1..Len(s) |-> LowerChar(s[i])]

DigitChars == <<"0","1","2","3","4","5","6","7","8","9">>

\* `${idx}` for a one-digit array index
IndexStr(i) == <<DigitChars[i + 1]>>

\* Array.prototype.includes
SeqIncludes(seq, x) == \E i \in 1..Len(seq) : seq[i] = x

\* The set of sequences over S of length at most n
RECURSIVE SeqsUpTo(_, _)
SeqsUpTo(S, n) ==
  IF n = 0 THEN {<<>>}
  ELSE LET shorter == SeqsUpTo(S, n - 1)
       IN  shorter \cup {Append(q, x) : q \in {r \in shorter : Len(r) = n - 1}, x \in S}

\* ------------------------------------------------------------ literals

s_unknown == <<"u","n","k","n","o","w","n">>
s_image == <<"i","m","a","g","e">>
s_jpg == <<".","j","p","g">>
s_http == <<"h","t","t","p">>
s_restored == <<"r","e","s","t","o","r","e","d","-">>
s_img_restored == <<"i","m","g","-","r","e","s","t","o","r","e","d","-">>
s_img_xlsx == <<"i","m","g","-","x","l","s","x","-">>
s_img_demo == <<"i","m","g","-","d","e","m","o","-">>

\* Date.now(): one clock reading per handler run; the ids built from it are told
\* apart by what follows it, so a single reading stands for all of them.
DateNow == <<"0">>

\* Math.random().toString(36).substr(2, 9) for the k-th row of an import: distinct
\* draws are taken to differ.
RandomStr(k) == <<"r">> \o IndexStr(k)

\* ------------------------------------------------------------ data model

\* interface TagDefinition
TagDefinition(tag, title1, title2, content) ==
  [tag |-> tag, title1 |-> title1, title2 |-> title2, content |-> content]

\* interface ImageItem
ImageItem(id, url, filename, tags, hotelId, hotelName, originalImageId) ==
  [id |-> id, url |-> url, filename |-> filename, tags |-> tags,
   hotelId |-> hotelId, hotelName |-> hotelName, originalImageId |-> originalImageId]

\* HasDef finding nothing
HasDef_never(defs, tag) == FALSE

\* definitions.some(d => d.tag === tag): the seenTags / seen / recoveredDefs.has test
HasDef(defs, tag) == \E i \in 1..Len(defs) : defs[i].tag = tag

\* ------------------------------------------------------------ tag text

\* A pasted text is described by how it is written, its dialect ("json":
\* well-formed JSON, strings in double quotes; "python": strings in single quotes,
\* None/True/False; "invalid": neither), and by the value it denotes: root.shape
\* is "array", "object" or "scalar", root.items the elements of a root array (or
\* the root object itself), each with its short_point (isArray, points); the
\* fields of a point are the characters between the quotes of its strings.
TagText(blank, dialect, root) == [blank |-> blank, dialect |-> dialect, root |-> root]

\* String.prototype.replace(/pat/g, rep)
RECURSIVE ReplaceAll(_, _, _)
ReplaceAll(s, pat, rep) ==
  IF Len(s) < Len(pat) THEN s
  ELSE IF SubSeq(s, 1, Len(pat)) = pat
  THEN rep \o ReplaceAll(SubSeq(s, Len(pat) + 1, Len(s)), pat, rep)
  ELSE <<Head(s)>> \o ReplaceAll(Tail(s), pat, rep)

\* What the four replacements make of the characters of one string of the text
sanitized(v) ==
  IF v = Undefined THEN v
  ELSE ReplaceAll(ReplaceAll(ReplaceAll(ReplaceAll(v, <<"'">>, <<"\"">>),
                                        <<"N","o","n","e">>, <<"n","u","l","l">>),
                             <<"T","r","u","e">>, <<"t","r","u","e">>),
                  <<"F","a","l","s","e">>, <<"f","a","l","s","e">>)

\* The value the sanitized text denotes when it parses: every string sanitized
sanitizedRoot(root) ==
  [root EXCEPT !.items =
     [i \in 1..Len(root.items) |->
        IF root.items[i] = Null THEN Null
        ELSE [root.items[i] EXCEPT !.points =
                [k \in 1..Len(root.items[i].points) |->
                   IF root.items[i].points[k] = Null THEN Null
                   ELSE [f \in DOMAIN root.items[i].points[k] |->
                           sanitized(root.items[i].points[k][f])]]]]]

\* A string of the text holds this character
HoldsChar(root, c) ==
  \E i \in {j \in 1..Len(root.items) : root.items[j] # Null} :
    \E k \in {j \in 1..Len(root.items[i].points) : root.items[i].points[j] # Null} :
    \E f \in DOMAIN root.items[i].points[k] :
      /\ root.items[i].points[k][f] # Undefined
      /\ SeqIncludes(root.items[i].points[k][f], c)

\* JSON.parse(sanitized): single quotes have become string delimiters, so the
\* text parses when it was JSON without an apostrophe in a string (each would
\* end its string early) or was written in the python dialect
ParseSanitized(text) ==
  IF text.dialect = "python" \/ (text.dialect = "json" /\ ~HoldsChar(text.root, "'"))
  THEN [ok |-> TRUE, data |-> sanitizedRoot(text.root)]
  ELSE [ok |-> FALSE, data |-> text.root]

\* JSON.parse(rawTagInput), App.tsx: strict parse first, sanitized parse second
ParseTagTextApp(text) ==
  IF text.dialect = "json" THEN [ok |-> TRUE, data |-> text.root]
  ELSE ParseSanitized(text)

\* part_000: the text is always sanitized, then parsed once
ParseTagTextPart000(text) == ParseSanitized(text)

\* processShortPoints: one definition per element with a truthy tag not seen yet
RECURSIVE processShortPoints(_, _)
processShortPoints(definitions, points) ==
  IF points = <<>> THEN definitions
  ELSE LET sp == Head(points)
           pushed == IF Truthy(sp.tag) /\ ~HasDef(definitions, sp.tag)
                     THEN Append(definitions,
                                 TagDefinition(sp.tag, OrEmpty(sp.title1),
                                               OrEmpty(sp.title2), OrEmpty(sp.content)))
                     ELSE definitions
       IN  processShortPoints(pushed, Tail(points))

\* data.forEach(item => if (item.short_point && Array.isArray(...)) process...)
RECURSIVE ExtractDefinitions(_, _)
ExtractDefinitions(definitions, items) ==
  IF items = <<>> THEN definitions
  ELSE LET item == Head(items)
           next == IF item.isArray THEN processShortPoints(definitions, item.points)
                   ELSE definitions
       IN  ExtractDefinitions(next, Tail(items))

TagParseEffectApp_unshift(text, prevTags) ==
  IF text.blank THEN [parsedTags |-> <<>>, tagParseError |-> "none"]
  ELSE LET parsed == ParseTagTextApp(text) IN
    IF ~parsed.ok THEN [parsedTags |-> prevTags, tagParseError |-> "MalformedInput"]
    ELSE IF parsed.data.shape = "scalar"
    THEN [parsedTags |-> prevTags, tagParseError |-> "RootNotListOrObject"]
    ELSE LET pushed == ExtractDefinitions(<<>>, parsed.data.items)
             definitions == [k \in 1..Len(pushed) |-> pushed[Len(pushed) + 1 - k]] IN
      IF Len(definitions) = 0
      THEN [parsedTags |-> prevTags, tagParseError |-> "NoTagsFound"]
      ELSE [parsedTags |-> definitions, tagParseError |-> "none"]

\* item.short_point of an item that is null, or sp.tag of an element that is null,
\* throws inside the try of the effect
extractionThrows(items) ==
  \E i \in 1..Len(items) :
    \/ items[i] = Null
    \/ items[i].isArray /\ \E k \in 1..Len(items[i].points) : items[i].points[k] = Null

\* The tag-parse effect of App.tsx: the new (parsedTags, tagParseError)
TagParseEffectApp(text, prevTags) ==
  IF text.blank THEN [parsedTags |-> <<>>, tagParseError |-> "none"]
  ELSE LET parsed == ParseTagTextApp(text) IN
    IF ~parsed.ok THEN [parsedTags |-> prevTags, tagParseError |-> "MalformedInput"]
    ELSE IF parsed.data.shape = "scalar"
    THEN [parsedTags |-> prevTags, tagParseError |-> "RootNotListOrObject"]
    ELSE IF extractionThrows(parsed.data.items)
    THEN [parsedTags |-> prevTags, tagParseError |-> "ExtractionThrew"]
    ELSE LET definitions == ExtractDefinitions(<<>>, parsed.data.items) IN
      IF Len(definitions) = 0
      THEN [parsedTags |-> prevTags, tagParseError |-> "NoTagsFound"]
      ELSE [parsedTags |-> definitions, tagParseError |-> "none"]

TagParseEffectPart000_clearsOnThrow(text, prevTags) ==
  IF text.blank THEN [parsedTags |-> <<>>, tagParseError |-> "none"]
  ELSE LET parsed == ParseTagTextPart000(text) IN
    IF ~parsed.ok THEN [parsedTags |-> prevTags, tagParseError |-> "MalformedInput"]
    ELSE IF parsed.data.shape # "array"
    THEN [parsedTags |-> prevTags, tagParseError |-> "RootNotList"]
    ELSE IF extractionThrows(parsed.data.items)
    THEN [parsedTags |-> <<>>, tagParseError |-> "ExtractionThrew"]
    ELSE LET definitions == ExtractDefinitions(<<>>, parsed.data.items) IN
      IF Len(definitions) = 0
      THEN [parsedTags |-> prevTags, tagParseError |-> "NoTagsFound"]
      ELSE [parsedTags |-> definitions, tagParseError |-> "none"]

\* The tag-parse effect of part_000: the root must be an array
TagParseEffectPart000(text, prevTags) ==
  IF text.blank THEN [parsedTags |-> <<>>, tagParseError |-> "none"]
  ELSE LET parsed == ParseTagTextPart000(text) IN
    IF ~parsed.ok THEN [parsedTags |-> prevTags, tagParseError |-> "MalformedInput"]
    ELSE IF parsed.data.shape # "array"
    THEN [parsedTags |-> prevTags, tagParseError |-> "RootNotList"]
    ELSE IF extractionThrows(parsed.data.items)
    THEN [parsedTags |-> prevTags, tagParseError |-> "ExtractionThrew"]
    ELSE LET definitions == ExtractDefinitions(<<>>, parsed.data.items) IN
      IF Len(definitions) = 0
      THEN [parsedTags |-> prevTags, tagParseError |-> "NoTagsFound"]
      ELSE [parsedTags |-> definitions, tagParseError |-> "none"]

TagParseEffect(v, text, prevTags) ==
  IF v = "App" THEN TagParseEffectApp(text, prevTags)
  ELSE TagParseEffectPart000(text, prevTags)

\* ------------------------------------------------------------ spreadsheet

\* A decoded sheet (XLSX.utils.sheet_to_json): header is the column names, each
\* row gives one cell per column, Undefined where the row object has no such key.
Sheet(valid, header, rows) == [valid |-> valid, header |-> header, rows |-> rows]

\* Object.keys(firstRow): the columns for which the first row has a cell
Keys(header, firstRow) ==
  LET present == {j \in 1..Len(header) : firstRow[j] # Undefined}
      RECURSIVE pick(_)
      pick(j) == IF j > Len(header) THEN <<>>
                 ELSE IF j \in present THEN <<header[j]>> \o pick(j + 1)
                 ELSE pick(j + 1)
  IN  pick(1)

\* row[k]
Cell(header, row, k) ==
  IF k = Undefined \/ ~\E j \in 1..Len(header) : header[j] = k THEN Undefined
  ELSE row[CHOOSE j \in 1..Len(header) : header[j] = k /\ \A i \in 1..(j - 1) : header[i] # k]

\* /^text$/i and /text/i
Exact(text) == [exact |-> TRUE, text |-> text]
Contains(text) == [exact |-> FALSE, text |-> text]

Test_caseSensitive(p, k) ==
  IF p.exact THEN k = p.text ELSE Includes(k, p.text)

\* p.test(k)
Test(p, k) ==
  IF p.exact THEN ToLowerCase(k) = p.text ELSE Includes(ToLowerCase(k), p.text)

\* keys.find(k => patterns.some(p => p.test(k)))
findKey(keys, patterns) ==
  LET hits == {j \in 1..Len(keys) : \E i \in 1..Len(patterns) : Test(patterns[i], keys[j])}
  IN  IF hits = {} THEN Undefined
      ELSE keys[CHOOSE j \in hits : \A i \in hits : j <= i]

s_url == <<"u","r","l">>
s_link == <<"l","i","n","k">>
s_src == <<"s","r","c">>
s_id == <<"i","d">>
s_name == <<"n","a","m","e">>
s_hotel == <<"h","o","t","e","l">>
s_image_url == s_image \o <<"_">> \o s_url
s_image_id == s_image \o <<"_">> \o s_id
s_imageid == s_image \o s_id
s_hotel_id == s_hotel \o <<"_">> \o s_id
s_hotelid == s_hotel \o s_id
s_hotel_name == s_hotel \o <<"_">> \o s_name
s_hotelname == s_hotel \o s_name
s_hotel_space_name == s_hotel \o <<" ">> \o s_name

urlPatterns == <<Exact(s_image_url), Exact(s_url), Exact(s_link), Exact(s_src),
                 Contains(s_link), Contains(s_url)>>
hotelIdPatterns == <<Exact(s_hotel_id), Exact(s_hotelid), Exact(s_hotel), Contains(s_hotel_id)>>
hotelNamePatterns == <<Exact(s_hotel_name), Exact(s_hotelname), Exact(s_name),
                       Exact(s_hotel_space_name)>>
imageIdPatterns == <<Exact(s_image_id), Exact(s_imageid), Exact(s_id), Contains(s_image_id)>>

sniffUrlKey_firstKey(header, keys, firstRow) == keys[1]

\* keys.find(k => String(firstRow[k]).startsWith('http'))
sniffUrlKey(header, keys, firstRow) ==
  LET hits == {j \in 1..Len(keys) : StartsWith(Cell(header, firstRow, keys[j]), s_http)}
  IN  IF hits = {} THEN Undefined
      ELSE keys[CHOOSE j \in hits : \A i \in hits : j <= i]

\* url.split('/').pop()?.split('?')[0] || `image-${idx}.jpg`
xlsxFilename(url, idx) ==
  OrElse(SplitFirst(SplitPop(url, "/"), "?"), s_image \o <<"-">> \o IndexStr(idx) \o s_jpg)

\* The .filter(row => row[effectiveUrlKey]).map((row, idx) => ...) of handleExcelUpload
parsedItems(header, rows, urlKey, hotelIdKey, hotelNameKey, imageIdKey) ==
  LET HasUrl(row) == Truthy(Cell(header, row, urlKey))
      kept == SelectSeq(rows, HasUrl)
  IN  [i \in 1..Len(kept) |->
        LET url == Trim(Cell(header, kept[i], urlKey))
        IN  ImageItem(s_img_xlsx \o DateNow \o <<"-">> \o IndexStr(i - 1),
                      url, xlsxFilename(url, i - 1), <<>>,
                      Cell(header, kept[i], hotelIdKey),
                      Cell(header, kept[i], hotelNameKey),
                      Cell(header, kept[i], imageIdKey))]

\* reader.onload of handleExcelUpload: the items to load, or the error reported
ExcelOnloadResult(sheet) ==
  IF ~sheet.valid THEN [ok |-> FALSE, items |-> <<>>, error |-> "ParseFailed"]
  ELSE IF Len(sheet.rows) = 0 THEN [ok |-> FALSE, items |-> <<>>, error |-> "EmptyInput"]
  ELSE
    LET firstRow == sheet.rows[1]
        keys == Keys(sheet.header, firstRow)
        urlKey == findKey(keys, urlPatterns)
        hotelIdKey == findKey(keys, hotelIdPatterns)
        hotelNameKey == findKey(keys, hotelNamePatterns)
        imageIdKey == findKey(keys, imageIdPatterns)
        effectiveUrlKey == IF urlKey # Undefined THEN urlKey
                           ELSE sniffUrlKey(sheet.header, keys, firstRow)
    IN  IF effectiveUrlKey = Undefined
        THEN [ok |-> FALSE, items |-> <<>>, error |-> "NoUrlColumn"]
        ELSE LET items == parsedItems(sheet.header, sheet.rows, effectiveUrlKey,
                                      hotelIdKey, hotelNameKey, imageIdKey)
             IN  IF Len(items) = 0
                 THEN [ok |-> FALSE, items |-> <<>>, error |-> "NoRowsExtracted"]
                 ELSE [ok |-> TRUE, items |-> items, error |-> "none"]

\* ------------------------------------------------------------ session file

\* One element of a session-file array.  A key the object lacks is Undefined
\* (JSON.stringify writes no key whose value is undefined).  tagname is the key
\* "tag name"; tags is (isArray, items), each item a string entry (isString, tag)
\* or an object entry with tag, title1, title2, content.
SessionRecord(image_id, image_url, hotel_id, hotel_name, tagname, tag_name, title1, title2, content, tags) ==
  [image_id |-> image_id, image_url |-> image_url, hotel_id |-> hotel_id,
   hotel_name |-> hotel_name, tagname |-> tagname, tag_name |-> tag_name,
   title1 |-> title1, title2 |-> title2, content |-> content, tags |-> tags]

NoTags == [isArray |-> FALSE, items |-> <<>>]

\* What JSON.parse makes of a session file: kind is "invalid" (a syntax error),
\* "scalar" (any value that is no array) or "array".
SessionFile(kind, records) == [kind |-> kind, records |-> records]

\* isFlatFormat looking at every record
isFlatFormat_anyRecord(json) ==
  \E k \in 1..Len(json) : json[k].tagname # Undefined \/ json[k].tag_name # Undefined

\* "tag name" in json[0] || "tag_name" in json[0]
isFlatFormat(json) == json[1].tagname # Undefined \/ json[1].tag_name # Undefined

\* Index of the entry of groupedImages with this url (0: groupedImages.has is false)
GroupIndex(groupedImages, url) ==
  IF \E i \in 1..Len(groupedImages) : groupedImages[i].url = url
  THEN CHOOSE i \in 1..Len(groupedImages) : groupedImages[i].url = url
  ELSE 0

\* id: row.image_id ? `restored-${row.image_id}` : `img-restored-${Date.now()}-${random}`
flatId(row, k) ==
  IF Truthy(row.image_id) THEN s_restored \o row.image_id
  ELSE s_img_restored \o DateNow \o <<"-">> \o RandomStr(k)

\* filename: url.split('/').pop() || 'unknown'
restoredFilename(url) == OrElse(SplitPop(url, "/"), s_unknown)

\* tagName && typeof tagName === 'string' && tagName.trim() !== ''
isTagName(tagName) == Truthy(tagName) /\ IsString(tagName) /\ Trim(tagName) # <<>>

\* pushTag without the includes test
pushTag_always(tags, tagName) == Append(tags, tagName)

\* if (!img.tags.includes(tagName)) img.tags.push(tagName)
pushTag(tags, tagName) == IF SeqIncludes(tags, tagName) THEN tags ELSE Append(tags, tagName)

\* recoverDef recovering nothing
recoverDef_never(recoveredDefs, tagName, row) == recoveredDefs

\* recoverDef without the has test
recoverDef_always(recoveredDefs, tagName, row) ==
  Append(recoveredDefs,
         TagDefinition(tagName, OrEmpty(row.title1), OrEmpty(row.title2),
                       OrEmpty(row.content)))

\* if (!recoveredDefs.has(tagName)) recoveredDefs.set(tagName, {...})
recoverDef(recoveredDefs, tagName, row) ==
  IF HasDef(recoveredDefs, tagName) THEN recoveredDefs
  ELSE Append(recoveredDefs,
              TagDefinition(tagName, OrEmpty(row.title1), OrEmpty(row.title2),
                            OrEmpty(row.content)))

\* The body of json.forEach(row => ...) on the flat path; acc is (groupedImages,
\* recoveredDefs), both in Map insertion order; k is the row's index.
flatRow(acc, row, k) ==
  LET url == row.image_url IN
  IF ~Truthy(url) THEN acc
  ELSE
    LET grouped == IF GroupIndex(acc.groupedImages, url) = 0
                   THEN Append(acc.groupedImages,
                               ImageItem(flatId(row, k), url, restoredFilename(url), <<>>,
                                         row.hotel_id, row.hotel_name, row.image_id))
                   ELSE acc.groupedImages
        i == GroupIndex(grouped, url)
        tagName == OrElse(row.tagname, row.tag_name)
    IN  IF isTagName(tagName)
        THEN [groupedImages |-> [grouped EXCEPT ![i].tags = pushTag(@, tagName)],
              recoveredDefs |-> recoverDef(acc.recoveredDefs, tagName, row)]
        ELSE [groupedImages |-> grouped, recoveredDefs |-> acc.recoveredDefs]

RECURSIVE flatRows(_, _, _)
flatRows(acc, json, k) ==
  IF k > Len(json) THEN acc ELSE flatRows(flatRow(acc, json[k], k - 1), json, k + 1)

\* The flat path: the arguments of onImportSession
importFlat(json) ==
  LET acc == flatRows([groupedImages |-> <<>>, recoveredDefs |-> <<>>], json, 1)
  IN  [called |-> TRUE, images |-> acc.groupedImages, tagDefs |-> acc.recoveredDefs,
       alert |-> "none"]

\* legacyTags dropping the embedded entries
legacyTags_none(tags) == <<>>

\* tags: Array.isArray(item.tags) ? item.tags.map(t => typeof t === 'string' ? t : t.tag) : []
legacyTags(tags) ==
  IF tags.isArray THEN [i \in 1..Len(tags.items) |-> tags.items[i].tag] ELSE <<>>

\* json.map((item, idx) => ...).filter(item => item.url)
restoredImages(json) ==
  LET mapped == [i \in 1..Len(json) |->
                   ImageItem(IF Truthy(json[i].image_id) THEN s_restored \o json[i].image_id
                             ELSE s_img_restored \o DateNow \o <<"-">> \o IndexStr(i - 1),
                             json[i].image_url,
                             restoredFilename(OrEmpty(json[i].image_url)),
                             legacyTags(json[i].tags),
                             json[i].hotel_id, json[i].hotel_name, json[i].image_id)]
      HasUrl(item) == Truthy(item.url)
  IN  SelectSeq(mapped, HasUrl)

\* The body of row.tags.forEach(t => ...) on the legacy path
legacyEntry(recoveredDefs, t) ==
  IF ~t.isString /\ Truthy(t.tag) /\ ~HasDef(recoveredDefs, t.tag)
  THEN Append(recoveredDefs,
              TagDefinition(t.tag, OrEmpty(t.title1), OrEmpty(t.title2), OrEmpty(t.content)))
  ELSE IF t.isString /\ ~HasDef(recoveredDefs, t.tag)
  THEN Append(recoveredDefs, TagDefinition(t.tag, <<>>, <<>>, Undefined))
  ELSE recoveredDefs

RECURSIVE legacyEntries(_, _)
legacyEntries(recoveredDefs, items) ==
  IF items = <<>> THEN recoveredDefs
  ELSE legacyEntries(legacyEntry(recoveredDefs, Head(items)), Tail(items))

RECURSIVE legacyDefs(_, _)
legacyDefs(recoveredDefs, json) ==
  IF json = <<>> THEN recoveredDefs
  ELSE legacyDefs(IF Head(json).tags.isArray
                  THEN legacyEntries(recoveredDefs, Head(json).tags.items)
                  ELSE recoveredDefs,
                  Tail(json))

\* importLegacy calling onImportSession whatever restoredImages holds
importLegacy_always(json) ==
  [called |-> TRUE, images |-> restoredImages(json),
   tagDefs |-> legacyDefs(<<>>, json), alert |-> "none"]

\* The legacy path
importLegacy(json) ==
  IF Len(restoredImages(json)) > 0
  THEN [called |-> TRUE, images |-> restoredImages(json),
        tagDefs |-> legacyDefs(<<>>, json), alert |-> "none"]
  ELSE [called |-> FALSE, images |-> <<>>, tagDefs |-> <<>>, alert |-> "NoValidImages"]

\* What throws inside the try of the reader: `in` or a property read on an
\* element that is null, url.split on a url that is no string, t.tag on an
\* embedded entry that is null (the legacy path alone reads the entries)
importThrows(json) ==
  \/ \E k \in 1..Len(json) : json[k] = Null
  \/ \E k \in 1..Len(json) : json[k].image_url = NonString
  \/ /\ json[1].tagname = Undefined
     /\ json[1].tag_name = Undefined
     /\ \E k \in 1..Len(json) :
          json[k].tags.isArray /\ \E e \in 1..Len(json[k].tags.items) : json[k].tags.items[e] = Null

\* reader.onload of handleJsonSessionUpload: whether onImportSession is called and
\* with what, or the alert shown
JsonOnloadResult(file) ==
  IF file.kind = "invalid"
  THEN [called |-> FALSE, images |-> <<>>, tagDefs |-> <<>>, alert |-> "ParseError"]
  ELSE IF file.kind # "array" \/ Len(file.records) = 0
  THEN [called |-> FALSE, images |-> <<>>, tagDefs |-> <<>>, alert |-> "EmptyOrInvalidJson"]
  ELSE IF importThrows(file.records)
  THEN [called |-> FALSE, images |-> <<>>, tagDefs |-> <<>>, alert |-> "ParseError"]
  ELSE IF isFlatFormat(file.records) THEN importFlat(file.records)
  ELSE importLegacy(file.records)

\* ------------------------------------------------------------ export

\* tagLookup.get(t) of App.tsx: tagDefs.forEach(def => tagLookup.set(def.tag, def))
\* keeps the last definition set for a key.  0: no definition.
tagLookup(defs, t) ==
  LET hits == {i \in 1..Len(defs) : defs[i].tag = t}
  IN  IF hits = {} THEN 0 ELSE CHOOSE i \in hits : \A j \in hits : j <= i

\* tagDefs.find(d => d.tag === tagStr) of part_000: the first definition. 0: none.
findDef(defs, t) ==
  LET hits == {i \in 1..Len(defs) : defs[i].tag = t}
  IN  IF hits = {} THEN 0 ELSE CHOOSE i \in hits : \A j \in hits : i <= j

\* defField finding no definition
defField_none(defs, i, field) == <<>>

\* def?.field || ""
defField(defs, i, field) == IF i = 0 THEN <<>> ELSE OrEmpty(defs[i][field])

\* The records App.tsx pushes for one image
exportImageApp(img, defs) ==
  IF Len(img.tags) = 0
  THEN <<SessionRecord(img.originalImageId, img.url, img.hotelId, img.hotelName,
                       <<>>, Undefined, <<>>, <<>>, <<>>, NoTags)>>
  ELSE [j \in 1..Len(img.tags) |->
         LET def == tagLookup(defs, img.tags[j])
         IN  SessionRecord(img.originalImageId, img.url, img.hotelId, img.hotelName,
                           img.tags[j], Undefined, defField(defs, def, "title1"),
                           defField(defs, def, "title2"), defField(defs, def, "content"),
                           NoTags)]

\* The records part_000 pushes for one image
exportImagePart000(img, defs) ==
  IF Len(img.tags) = 0
  THEN <<SessionRecord(OrElse(img.originalImageId, img.id), img.url, OrEmpty(img.hotelId),
                       Undefined, <<>>, Undefined, <<>>, <<>>, Undefined, NoTags)>>
  ELSE [j \in 1..Len(img.tags) |->
         LET def == findDef(defs, img.tags[j])
         IN  SessionRecord(OrElse(img.originalImageId, img.id), img.url,
                           OrEmpty(img.hotelId), Undefined, img.tags[j], Undefined,
                           defField(defs, def, "title1"), defField(defs, def, "title2"),
                           Undefined, NoTags)]

exportImage(v, img, defs) ==
  IF v = "App" THEN exportImageApp(img, defs) ELSE exportImagePart000(img, defs)

\* handleExport: exportData after images.forEach
RECURSIVE exportData(_, _, _)
exportData(v, imgs, defs) ==
  IF imgs = <<>> THEN <<>>
  ELSE exportImage(v, Head(imgs), defs) \o exportData(v, Tail(imgs), defs)

\* JSON.parse(JSON.stringify(exportData)): the downloaded file read back.  A key
\* whose value is undefined is not written, which is how a record holds it.
exportedFile(v, imgs, defs) == SessionFile("array", exportData(v, imgs, defs))

\* ------------------------------------------------------------ labeling

\* toggledTags without its removal branch
toggledTags_appendOnly(tags, tag) == Append(tags, tag)

\* hasTag ? img.tags.filter(t => t !== tag) : [...img.tags, tag]
toggledTags(tags, tag) ==
  LET Other(t) == t # tag
  IN  IF SeqIncludes(tags, tag) THEN SelectSeq(tags, Other) ELSE Append(tags, tag)

\* prev.map(img => img.id === imageId ? {...img, tags: ...} : img)
toggleTag(imgs, imageId, tag) ==
  [i \in 1..Len(imgs) |->
     IF imgs[i].id = imageId
     THEN [imgs[i] EXCEPT !.tags = toggledTags(@, tag)]
     ELSE imgs[i]]

\* ------------------------------------------------------------ demo data

\* IMAGE_URLS of ./constants
IMAGE_URLS == <<s_http \o <<"/","d">>, s_http \o <<"/","e">>>>

\* demoTags of App.tsx, the first two of its seven definitions
demoTagsApp ==
  <<TagDefinition(<<"w">>, <<"w">>, <<"j">>, <<"c">>),
    TagDefinition(<<"d">>, <<"g">>, <<"d">>, <<"c">>)>>

\* The definitions part_000 loads, the first two of its three
demoTagsPart000 ==
  <<TagDefinition(<<"g">>, <<"c">>, <<"t">>, <<"w">>),
    TagDefinition(<<"h">>, <<"j">>, <<"j">>, <<"w">>)>>

\* demoImages of App.tsx
demoImagesApp ==
  [i \in 1..Len(IMAGE_URLS) |->
     ImageItem(s_img_demo \o IndexStr(i - 1), IMAGE_URLS[i],
               OrElse(SplitPop(IMAGE_URLS[i], "/"),
                      s_image \o <<"-">> \o IndexStr(i - 1) \o s_jpg),
               <<>>, <<"5","2","4","0","2","1">>, <<"D","e","m","o">>,
               <<"1","0","0">> \o IndexStr(i - 1))]

\* demoItems of part_000
demoItemsPart000 ==
  [i \in 1..Len(IMAGE_URLS) |->
     ImageItem(s_img_demo \o IndexStr(i - 1), IMAGE_URLS[i],
               SplitFirst(OrElse(SplitPop(IMAGE_URLS[i], "/"), s_image), "?"),
               <<>>, Undefined, Undefined, Undefined)]

\* ------------------------------------------------------------ inputs

MaxPoints == 2
MaxRows == 2
MaxRecords == 2
MaxInFlight == 1

tA == <<"A">>
tB == <<"B">>
tBlank == <<" ">>
T1 == <<"T">>
T2 == <<"X">>
U1 == s_http \o <<"/","a">>
U2 == s_http \o <<"/","b">>
Id7 == <<"7">>
HotelH == <<"h">>

\* One element of a short_point array
Point(tag, title1) == [tag |-> tag, title1 |-> title1, title2 |-> Undefined, content |-> Undefined]

Points == {Point(tA, T1), Point(tA, T2), Point(tBlank, T1)}

ShortPoint(points) == [isArray |-> TRUE, points |-> points]

ArrayRoot(items) == [shape |-> "array", items |-> items]

ObjectRoot(points) == [shape |-> "object", items |-> <<ShortPoint(points)>>]

ScalarRoot == [shape |-> "scalar", items |-> <<>>]

\* The pasted texts: blank, unparseable, a scalar, and the two accepted shapes
TagTexts ==
  {TagText(TRUE, "json", ScalarRoot), TagText(FALSE, "invalid", ScalarRoot),
   TagText(FALSE, "json", ScalarRoot)}
  \cup {TagText(FALSE, "python", ArrayRoot(<<ShortPoint(q)>>)) : q \in SeqsUpTo(Points, MaxPoints)}
  \cup {TagText(FALSE, "json", ObjectRoot(q)) : q \in SeqsUpTo(Points, MaxPoints)}

Headers == {<<s_image_url, s_hotel_id, s_image_id>>}

SheetRows == {<<u, HotelH, Id7>> : u \in {Undefined, <<>>, tBlank, U1, U2}}

Sheets ==
  {Sheet(FALSE, <<>>, <<>>)}
  \cup {Sheet(TRUE, h, rows) : h \in Headers, rows \in SeqsUpTo(SheetRows, MaxRows)}

FlatRecord(image_id, image_url, tagname, title1) ==
  SessionRecord(image_id, image_url, HotelH, Undefined, tagname, Undefined,
                title1, Undefined, Undefined, NoTags)

LegacyRecord(image_id, image_url, items) ==
  SessionRecord(image_id, image_url, HotelH, Undefined, Undefined, Undefined,
                Undefined, Undefined, Undefined, [isArray |-> TRUE, items |-> items])

StringEntry(tag) ==
  [isString |-> TRUE, tag |-> tag, title1 |-> Undefined, title2 |-> Undefined,
   content |-> Undefined]

ObjectEntry(tag, title1) ==
  [isString |-> FALSE, tag |-> tag, title1 |-> title1, title2 |-> Undefined,
   content |-> Undefined]

SessionRecords ==
  {FlatRecord(Id7, U1, tA, T1), FlatRecord(Id7, U2, tA, T2),
   FlatRecord(Undefined, U1, <<>>, Undefined),
   LegacyRecord(Id7, U1, <<StringEntry(tA), StringEntry(tA)>>),
   LegacyRecord(Undefined, U2, <<ObjectEntry(tB, T1), ObjectEntry(tB, T2)>>),
   LegacyRecord(Id7, Undefined, <<ObjectEntry(tA, T1)>>)}

SessionFiles ==
  {SessionFile("invalid", <<>>), SessionFile("scalar", <<>>)}
  \cup {SessionFile("array", rs) : rs \in SeqsUpTo(SessionRecords, MaxRecords)}

\* What each read can deliver, by content
ExcelResults == [sheet \in Sheets |-> ExcelOnloadResult(sheet)]
JsonResults == [file \in SessionFiles |-> JsonOnloadResult(file)]

NoText == TagText(TRUE, "json", ScalarRoot)
NoFile == SessionFile("invalid", <<>>)

\* What the last handler run was, what it was given and the error it reported
Last(op, text, file, imageId, tag, error) ==
  [op |-> op, text |-> text, file |-> file, imageId |-> imageId, tag |-> tag,
   error |-> error]

Ran(op) == Last(op, NoText, NoFile, Undefined, Undefined, "none")

\* ------------------------------------------------------------ handlers

\* SetupScreen's state as useState initialises it; also what is left of it once the
\* component is unmounted (step = "labeling"): a remount starts from these values,
\* and a spreadsheet read of the old instance can only set the old instance's state.
SetupUnmounted ==
  /\ loadedImages' = <<>>
  /\ parsedTags' = <<>>
  /\ tagParseError' = "none"
  /\ excelReads' = 0

NoCall == /\ pc = "idle" /\ arg = <<>> /\ ret = <<>>

AppInit ==
  /\ variant \in {"App", "Part000"}
  /\ step = "setup"
  /\ images = <<>>
  /\ tagDefs = <<>>
  /\ loadedImages = <<>>
  /\ parsedTags = <<>>
  /\ tagParseError = "none"
  /\ jsonReads = 0
  /\ excelReads = 0
  /\ last = Ran("init")

Init == AppInit /\ NoCall

\* setRawTagInput followed by the tag-parse effect
SetRawTagInput(text) ==
  /\ step = "setup"
  /\ LET effect == TagParseEffect(variant, text, parsedTags)
     IN  /\ parsedTags' = effect.parsedTags
         /\ tagParseError' = effect.tagParseError
         /\ last' = Last("parse", text, NoFile, Undefined, Undefined, effect.tagParseError)
  /\ UNCHANGED <<variant, step, images, tagDefs, loadedImages, jsonReads, excelReads, call>>

\* handleExcelUpload: a read of the chosen file starts (uploadError, which only the
\* rendering reads, is carried as the error of the last handler run)
HandleExcelUpload ==
  /\ step = "setup"
  /\ excelReads < MaxInFlight
  /\ excelReads' = excelReads + 1
  /\ last' = Ran("excelUpload")
  /\ UNCHANGED <<variant, step, images, tagDefs, loadedImages, parsedTags, tagParseError,
                 jsonReads, call>>

\* reader.onload of handleExcelUpload; the file's content shows when the read ends
ExcelOnload(sheet) ==
  /\ excelReads > 0
  /\ excelReads' = excelReads - 1
  /\ LET result == ExcelResults[sheet]
     IN  /\ loadedImages' = IF result.ok THEN result.items ELSE loadedImages
         /\ last' = Last("excelOnload", NoText, NoFile, Undefined, Undefined, result.error)
  /\ UNCHANGED <<variant, step, images, tagDefs, parsedTags, tagParseError, jsonReads, call>>

\* handleStart of SetupScreen calling handleStart of App (onStart)
HandleStart(confirmed) ==
  /\ step = "setup"
  /\ Len(loadedImages) > 0
  /\ Len(parsedTags) = 0 => confirmed
  /\ images' = loadedImages
  /\ tagDefs' = parsedTags
  /\ step' = "labeling"
  /\ SetupUnmounted
  /\ last' = Ran("start")
  /\ UNCHANGED <<variant, jsonReads, call>>

HandleLoadDemo_keepsDefs ==
  /\ step = "setup"
  /\ images' = IF variant = "App" THEN demoImagesApp ELSE demoItemsPart000
  /\ step' = "labeling"
  /\ SetupUnmounted
  /\ last' = Ran("demo")
  /\ UNCHANGED <<variant, tagDefs, jsonReads, call>>

\* handleLoadDemo
HandleLoadDemo ==
  /\ step = "setup"
  /\ images' = IF variant = "App" THEN demoImagesApp ELSE demoItemsPart000
  /\ tagDefs' = IF variant = "App" THEN demoTagsApp ELSE demoTagsPart000
  /\ step' = "labeling"
  /\ SetupUnmounted
  /\ last' = Ran("demo")
  /\ UNCHANGED <<variant, jsonReads, call>>

\* handleJsonSessionUpload: a read of the chosen file starts
HandleJsonSessionUpload ==
  /\ step = "setup"
  /\ jsonReads < MaxInFlight
  /\ jsonReads' = jsonReads + 1
  /\ last' = Ran("jsonUpload")
  /\ UNCHANGED <<variant, step, images, tagDefs, loadedImages, parsedTags, tagParseError,
                 excelReads, call>>

\* reader.onload of handleJsonSessionUpload, calling handleImportSession of App
JsonOnload(file) ==
  /\ jsonReads > 0
  /\ jsonReads' = jsonReads - 1
  /\ LET result == JsonResults[file]
     IN  /\ IF result.called
            THEN /\ images' = result.images
                 /\ tagDefs' = result.tagDefs
                 /\ step' = "labeling"
                 /\ SetupUnmounted
            ELSE UNCHANGED <<step, images, tagDefs, loadedImages, parsedTags, tagParseError,
                             excelReads>>
         /\ last' = Last("jsonOnload", NoText, file, Undefined, Undefined, result.alert)
  /\ UNCHANGED <<variant, call>>

\* handleToggleTag
HandleToggleTag(imageId, tag) ==
  /\ step = "labeling"
  /\ images' = toggleTag(images, imageId, tag)
  /\ last' = Last("toggle", NoText, NoFile, imageId, tag, "none")
  /\ UNCHANGED <<variant, step, tagDefs, loadedImages, parsedTags, tagParseError,
                 jsonReads, excelReads, call>>

\* handleExport: the file downloaded is kept as the file of the last handler run;
\* the session stays as it is
HandleExport ==
  /\ step = "labeling"
  /\ last' = Last("export", NoText, exportedFile(variant, images, tagDefs),
                 Undefined, Undefined, "none")
  /\ UNCHANGED <<variant, step, images, tagDefs, loadedImages, parsedTags, tagParseError,
                 jsonReads, excelReads, call>>

HandleReset_keepsDefs(confirmed) ==
  /\ step = "labeling"
  /\ IF confirmed
     THEN step' = "setup" /\ images' = <<>> /\ UNCHANGED tagDefs
     ELSE UNCHANGED <<step, images, tagDefs>>
  /\ last' = Ran(IF confirmed THEN "reset" ELSE "resetDeclined")
  /\ UNCHANGED <<variant, loadedImages, parsedTags, tagParseError, jsonReads, excelReads, call>>

\* handleReset, the user confirming or declining
HandleReset(confirmed) ==
  /\ step = "labeling"
  /\ IF confirmed
     THEN step' = "setup" /\ images' = <<>> /\ tagDefs' = <<>>
     ELSE UNCHANGED <<step, images, tagDefs>>
  /\ last' = Ran(IF confirmed THEN "reset" ELSE "resetDeclined")
  /\ UNCHANGED <<variant, loadedImages, parsedTags, tagParseError, jsonReads, excelReads, call>>

\* An id no image of the session has
NoSuchId == <<"?">>

\* The tag buttons and number keys of the detail view call handleToggleTag with
\* the id of the selected image and the tag of a definition of tagDefs; the last
\* toggle disjunct is a call with an id that resolves to no image.
Next ==
  \/ \E text \in TagTexts : SetRawTagInput(text)
  \/ HandleExcelUpload
  \/ \E sheet \in Sheets : ExcelOnload(sheet)
  \/ \E confirmed \in BOOLEAN : HandleStart(confirmed)
  \/ HandleLoadDemo
  \/ HandleJsonSessionUpload
  \/ \E file \in SessionFiles : JsonOnload(file)
  \/ \E i \in 1..Len(images), d \in 1..Len(tagDefs) : HandleToggleTag(images[i].id, tagDefs[d].tag)
  \/ \E d \in 1..Len(tagDefs) : HandleToggleTag(NoSuchId, tagDefs[d].tag)
  \/ HandleExport
  \/ \E confirmed \in BOOLEAN : HandleReset(confirmed)

Spec == Init /\ [][Next]_vars

\* ------------------------------------------------------------ single calls

MaxImages == 2
MaxTags == 2
MaxFlatRecords == 2

\* The i-th image of a session to export, with these tags
LabeledImage(i, tags) ==
  ImageItem(s_img_demo \o IndexStr(i - 1), s_http \o <<"/">> \o IndexStr(i - 1),
            IndexStr(i - 1), tags, Undefined, Undefined, Undefined)

\* The sessions handleExport is called on: each image with up to MaxTags of the
\* tags A and B, the definition list with both keys, with A only, or empty
ExportInputs ==
  {[images |-> [i \in 1..Len(q) |-> LabeledImage(i, q[i])], tagDefs |-> defs] :
     q \in SeqsUpTo(SeqsUpTo({tA, tB}, MaxTags), MaxImages) \ {<<>>},
     defs \in {<<>>, <<TagDefinition(tA, T1, T2, <<>>)>>,
               <<TagDefinition(tB, T2, <<>>, <<>>), TagDefinition(tA, T1, T2, <<>>)>>}}

\* handleExport called once on the session arg
ExportInit == AppInit /\ pc = "export" /\ arg \in ExportInputs /\ ret = <<>>

ExportCall ==
  /\ pc = "export"
  /\ pc' = "exported"
  /\ ret' = exportedFile(variant, arg.images, arg.tagDefs)
  /\ UNCHANGED <<app, arg>>

ExportNext == ExportCall

SpecExport == ExportInit /\ [][ExportNext]_vars

\* The records of the files read: with or without a url, with the key "tag name"
\* (a tag, a blank one, '') or tag_name or neither, with or without image_id
ImportRecords ==
  {SessionRecord(id, url, HotelH, Undefined, names[1], names[2], T1, Undefined,
                 Undefined, NoTags) :
     id \in {Id7, Undefined}, url \in {U1, U2, <<>>},
     names \in {<<tA, Undefined>>, <<tB, Undefined>>, <<tBlank, Undefined>>,
                <<<<>>, Undefined>>, <<Undefined, tA>>, <<Undefined, Undefined>>}}

ImportInputs ==
  {SessionFile("array", rs) : rs \in SeqsUpTo(ImportRecords, MaxFlatRecords) \ {<<>>}}

\* reader.onload of handleJsonSessionUpload run once on the file arg
ImportInit == AppInit /\ pc = "import" /\ arg \in ImportInputs /\ ret = <<>>

ImportCall ==
  /\ pc = "import"
  /\ pc' = "imported"
  /\ ret' = JsonOnloadResult(arg)
  /\ UNCHANGED <<app, arg>>

ImportNext == ImportCall

SpecImport == ImportInit /\ [][ImportNext]_vars

MaxLegacyRecords == 2
MaxEntries == 2

\* The embedded entries of legacy records: a string, and objects with titles
LegacyEntryKinds == {StringEntry(tA), ObjectEntry(tB, T1), ObjectEntry(tA, T2)}

\* The records of legacy files: with a url and up to MaxEntries embedded entries,
\* with a url and no tags array, and without a url
LegacyRecords ==
  {LegacyRecord(Id7, U1, items) : items \in SeqsUpTo(LegacyEntryKinds, MaxEntries)}
  \cup {SessionRecord(Id7, U2, HotelH, Undefined, Undefined, Undefined, Undefined,
                      Undefined, Undefined, NoTags),
        LegacyRecord(Undefined, Undefined, <<ObjectEntry(tB, T2)>>)}

LegacyInputs ==
  {SessionFile("array", rs) : rs \in SeqsUpTo(LegacyRecords, MaxLegacyRecords) \ {<<>>}}

\* reader.onload of handleJsonSessionUpload run once on a legacy file
LegacyInit == AppInit /\ pc = "import" /\ arg \in LegacyInputs /\ ret = <<>>

SpecLegacy == LegacyInit /\ [][ImportNext]_vars

\* One run of the tag-parse effect on a pasted text, over what parsedTags held.
\* The strings of the texts include an apostrophe and the word None.
MaxTextPoints == 2

ParsePoints ==
  {Point(tA, T1), Point(tA, T2), Point(<<"A", "'", "s">>, T1),
   Point(<<"N", "o", "n", "e">>, T2), Point(<<>>, T1), Point(Undefined, T1)}

\* The roots a text denotes: a list of one or two items, the second one with a
\* short_point of its own or without one; an object; a scalar
ParseRoots ==
  UNION {{ArrayRoot(<<ShortPoint(q)>>),
          ArrayRoot(<<ShortPoint(q), ShortPoint(<<Point(tB, T1), Point(tA, T2)>>)>>),
          ArrayRoot(<<[isArray |-> FALSE, points |-> <<>>], ShortPoint(q)>>),
          ObjectRoot(q)} : q \in SeqsUpTo(ParsePoints, MaxTextPoints)}
  \cup {ScalarRoot}

ParseTexts ==
  {TagText(TRUE, "json", ScalarRoot), TagText(FALSE, "invalid", ScalarRoot)}
  \cup {TagText(FALSE, d, root) : d \in {"json", "python"}, root \in ParseRoots}

ParseInputs ==
  [text : ParseTexts, prevTags : {<<>>, <<TagDefinition(tB, T2, <<>>, <<>>)>>}]

ParseInit == AppInit /\ pc = "parse" /\ arg \in ParseInputs /\ ret = <<>>

ParseCall ==
  /\ pc = "parse"
  /\ pc' = "parsed"
  /\ ret' = TagParseEffect(variant, arg.text, arg.prevTags)
  /\ UNCHANGED <<app, arg>>

SpecParse == ParseInit /\ [][ParseCall]_vars

\* One read of a spreadsheet whose columns come in every order: a column named
\* image_url, and columns whose names match only without regard to case.
MaxColumns == 3
MaxColumnRows == 2

h_Image_Link == <<"I","m","a","g","e"," ","L","i","n","k">>
h_HotelID == <<"H","o","t","e","l","I","D">>
h_Name == <<"N","a","m","e">>

ColumnNames == {s_image_url, h_Image_Link, h_HotelID, h_Name}

\* The headers: two to MaxColumns different columns in any order
ColumnHeaders ==
  {h \in SeqsUpTo(ColumnNames, MaxColumns) :
     Len(h) >= 2 /\ \A i, j \in 1..Len(h) : h[i] = h[j] => i = j}

\* A row of a sheet with this header: each column has a cell of its own, and a
\* sparse row has no cell in the Name column
ColumnRow(header, sparse) ==
  [j \in 1..Len(header) |->
     IF header[j] = s_image_url THEN U1
     ELSE IF header[j] = h_Image_Link THEN U2 \o <<" ">>
     ELSE IF header[j] = h_HotelID THEN HotelH
     ELSE IF sparse THEN Undefined ELSE T1]

ColumnSheets ==
  {Sheet(TRUE, h, [k \in 1..Len(q) |-> ColumnRow(h, q[k])]) :
     h \in ColumnHeaders, q \in SeqsUpTo(BOOLEAN, MaxColumnRows) \ {<<>>}}

ColumnsInit == AppInit /\ pc = "read" /\ arg \in ColumnSheets /\ ret = <<>>

ColumnsCall ==
  /\ pc = "read"
  /\ pc' = "resolved"
  /\ ret' = ExcelOnloadResult(arg)
  /\ UNCHANGED <<app, arg>>

SpecColumns == ColumnsInit /\ [][ColumnsCall]_vars

\* One read of a spreadsheet that ends on the setup screen, over what an earlier
\* read has loaded
SheetInit ==
  /\ variant \in {"App", "Part000"}
  /\ step = "setup"
  /\ images = <<>>
  /\ tagDefs = <<>>
  /\ loadedImages \in {ExcelResults[sheet].items : sheet \in Sheets}
  /\ parsedTags = <<>>
  /\ tagParseError = "none"
  /\ jsonReads = 0
  /\ excelReads = 1
  /\ last = Ran("excelUpload")
  /\ pc = "idle"
  /\ arg \in Sheets
  /\ ret = <<>>

SpecSheet == SheetInit /\ [][ExcelOnload(arg)]_vars

\* Spreadsheet reads told apart: arg is the files whose reads are in flight, in
\* the order they were started, ret the file of the read started last.  A
\* FileReader is made per call of handleExcelUpload and nothing cancels it, so
\* the reads in flight complete in any order.
MaxReads == 2

\* handleExcelUpload: reader.readAsArrayBuffer(file)
StartRead(sheet) ==
  /\ step = "setup"
  /\ Len(arg) < MaxReads
  /\ arg' = Append(arg, sheet)
  /\ ret' = sheet
  /\ excelReads' = excelReads + 1
  /\ last' = Ran("excelUpload")
  /\ UNCHANGED <<variant, step, images, tagDefs, loadedImages, parsedTags, tagParseError,
                 jsonReads, pc>>

\* reader.onload of the k-th read in flight
CompleteRead(k) ==
  /\ k \in 1..Len(arg)
  /\ arg' = SubSeq(arg, 1, k - 1) \o SubSeq(arg, k + 1, Len(arg))
  /\ excelReads' = excelReads - 1
  /\ LET result == ExcelOnloadResult(arg[k])
     IN  /\ loadedImages' = IF result.ok THEN result.items ELSE loadedImages
         /\ last' = Last("excelOnload", NoText, NoFile, Undefined, Undefined, result.error)
  /\ UNCHANGED <<variant, step, images, tagDefs, parsedTags, tagParseError, jsonReads, pc, ret>>

SpecReads ==
  Init /\ [][\/ \E sheet \in {s \in Sheets : Len(s.rows) = 1} : StartRead(sheet)
             \/ \E k \in 1..MaxReads : CompleteRead(k)]_vars

\* One run of each operation on inputs with elements the code does not expect:
\* null in the list of a tag text, in a short_point array, in the array of a
\* session file and among the embedded tags of a record, and a url that is no
\* string
MaxHostileRecords == 2

HostileTexts ==
  ParseTexts
  \cup {TagText(FALSE, d, root) :
          d \in {"json", "python"},
          root \in {ArrayRoot(<<Null>>),
                    ArrayRoot(<<ShortPoint(<<Point(tA, T1)>>), Null>>),
                    ArrayRoot(<<ShortPoint(<<Point(tA, T1), Null>>)>>),
                    ArrayRoot(<<ShortPoint(<<Null, Point(tA, T1)>>)>>),
                    ObjectRoot(<<Point(tA, T1), Null>>)}}

HostileRecords ==
  {Null, FlatRecord(Id7, U1, tA, T1), FlatRecord(Id7, NonString, tA, T1),
   LegacyRecord(Id7, U1, <<StringEntry(tA)>>), LegacyRecord(Id7, U1, <<StringEntry(tA), Null>>),
   LegacyRecord(Id7, NonString, <<>>),
   SessionRecord(Id7, U2, HotelH, Undefined, tA, Undefined, T1, Undefined, Undefined,
                 [isArray |-> TRUE, items |-> <<Null>>])}

HostileFiles ==
  {SessionFile("invalid", <<>>), SessionFile("scalar", <<>>)}
  \cup {SessionFile("array", q) : q \in SeqsUpTo(HostileRecords, MaxHostileRecords)}

HostileInit ==
  /\ AppInit
  /\ ret = <<>>
  /\ \/ pc = "parse" /\ arg \in [text : HostileTexts,
                                prevTags : {<<>>, <<TagDefinition(tB, T2, <<>>, <<>>)>>}]
     \/ pc = "import" /\ arg \in HostileFiles
     \/ pc = "read" /\ arg \in Sheets

SpecHostile == HostileInit /\ [][ParseCall \/ ImportCall \/ ColumnsCall]_vars

\* ------------------------------------------------------------ properties

\* The m-th smallest element of a finite set of numbers
NthOf(S, m) == CHOOSE k \in S : Cardinality({j \in S : j < k}) = m - 1

\* seq with the elements that do not count taken out, the rest in their order
Only(seq, Counts(_)) ==
  LET kept == {k \in 1..Len(seq) : Counts(seq[k])}
  IN  [m \in 1..Cardinality(kept) |-> seq[NthOf(kept, m)]]

\* The elements of seq that count, each once, in order of first occurrence
DistinctIn(seq, Counts(_)) ==
  LET first == {k \in 1..Len(seq) : Counts(seq[k]) /\ \A j \in 1..(k - 1) : seq[j] # seq[k]}
  IN  [m \in 1..Cardinality(first) |-> seq[NthOf(first, m)]]

NoRepeat(seq) == \A j, k \in 1..Len(seq) : seq[j] = seq[k] => j = k

NonEmpty(v) == v # Undefined /\ v # <<>>

\* A string with a character that is no white space
NonBlank(v) == v # Undefined /\ \E k \in 1..Len(v) : v[k] # " "

Anything(v) == TRUE

\* What a toggle of tag on the images with identity imageId is to make of before
Toggled(before, after, imageId, tag) ==
  /\ Len(after) = Len(before)
  /\ \A i \in 1..Len(before) :
       IF before[i].id = imageId
       THEN /\ after[i] = [before[i] EXCEPT !.tags = after[i].tags]
            /\ LET Other(t) == t # tag
               IN  IF \E k \in 1..Len(before[i].tags) : before[i].tags[k] = tag
                   THEN after[i].tags = Only(before[i].tags, Other)
                   ELSE after[i].tags = before[i].tags \o <<tag>>
       ELSE after[i] = before[i]

C4_NoDuplicateTags == \A i \in 1..Len(images) : NoRepeat(images[i].tags)

\* C5: in every reachable state the ids of the session's images are pairwise
\* distinct.
C5_UniqueIds == \A i, j \in 1..Len(images) : images[i].id = images[j].id => i = j

\* C6: every image of the session has a non-empty url.
C6_NonEmptyUrl == \A i \in 1..Len(images) : NonEmpty(images[i].url)

\* The number of records an image is exported as
RecordsOf(img) == IF Len(img.tags) = 0 THEN 1 ELSE Len(img.tags)

\* The number of records exported for the images before the i-th
RECURSIVE OffsetOf(_, _)
OffsetOf(imgs, i) == IF i = 1 THEN 0 ELSE OffsetOf(imgs, i - 1) + RecordsOf(imgs[i - 1])

\* C9: every record of an exported file carries hotel_id and image_url, and an
\* image_id equal to the image's originalImageId or, when the image has none, to
\* its internal id.
C9_ExportKeys ==
  last.op = "export" =>
    \A i \in 1..Len(images) : \A k \in 1..RecordsOf(images[i]) :
      LET n == OffsetOf(images, i) + k IN
      /\ n <= Len(last.file.records)
      /\ last.file.records[n].hotel_id # Undefined
      /\ last.file.records[n].image_url # Undefined
      /\ last.file.records[n].image_id =
           IF images[i].originalImageId # Undefined THEN images[i].originalImageId
           ELSE images[i].id

\* What reading the file of the last export back gives
ReadBack == JsonOnloadResult(last.file)

\* The urls of a sequence of images
UrlsOf(imgs) == [i \in 1..Len(imgs) |-> imgs[i].url]

\* The tags of the images with this url, one image after the other
RECURSIVE TagsAt(_, _)
TagsAt(imgs, url) ==
  IF imgs = <<>> THEN <<>>
  ELSE (IF Head(imgs).url = url THEN Head(imgs).tags ELSE <<>>) \o TagsAt(Tail(imgs), url)

\* The tags of a sequence of images, one image after the other
RECURSIVE AllTags(_)
AllTags(imgs) == IF imgs = <<>> THEN <<>> ELSE Head(imgs).tags \o AllTags(Tail(imgs))

\* The tags of the images whose url counts, one image after the other
TagsOf(imgs, Counts(_)) ==
  LET Counted(img) == Counts(img.url) IN AllTags(Only(imgs, Counted))

\* The session can be told from its export: urls non-empty and pairwise distinct,
\* tag lists of non-blank tags without repeats
Faithful(imgs) ==
  /\ NoRepeat(UrlsOf(imgs))
  /\ \A i \in 1..Len(imgs) :
       /\ NonEmpty(imgs[i].url)
       /\ NoRepeat(imgs[i].tags)
       /\ \A k \in 1..Len(imgs[i].tags) : NonBlank(imgs[i].tags[k])

FieldOf(defs, tag, field) ==
  IF \E d \in 1..Len(defs) : defs[d].tag = tag
  THEN defs[CHOOSE d \in 1..Len(defs) : defs[d].tag = tag][field]
  ELSE <<>>

\* defs holds one definition per key, in the keys' order, titled as the session's
RestoredAs(defs, keys) ==
  /\ Len(defs) = Len(keys)
  /\ \A m \in 1..Len(keys) :
       m <= Len(defs) =>
         /\ defs[m].tag = keys[m]
         /\ defs[m].title1 = FieldOf(tagDefs, keys[m], "title1")
         /\ defs[m].title2 = FieldOf(tagDefs, keys[m], "title2")

\* C3 (as stated): export followed by import restores exactly the definitions of
\* the tags applied to at least one image, in order of first appearance in the
\* exported records, each with the session's title1 and title2 for that tag.
C3_RoundTripDefsExact ==
  last.op = "export" => RestoredAs(ReadBack.tagDefs, DistinctIn(TagsOf(images, Anything), Anything))

\* C3 (amended): export followed by import restores exactly the definitions of
\* the non-blank tags applied to at least one image with a non-empty url, in
\* order of first appearance in the exported records, each once and with the
\* session's title1 and title2 for that tag; definitions of tags applied to no
\* image are not restored.
C3_RoundTripDefs ==
  last.op = "export" =>
    /\ RestoredAs(ReadBack.tagDefs, DistinctIn(TagsOf(images, NonEmpty), NonBlank))
    /\ \A d \in 1..Len(tagDefs) :
         (\A i \in 1..Len(images) : ~SeqIncludes(images[i].tags, tagDefs[d].tag))
           => ~HasDef(ReadBack.tagDefs, tagDefs[d].tag)

\* An export where one tag is on two images and another definition is unapplied
C3_Witness ==
  /\ last.op = "export"
  /\ Len(tagDefs) = 2
  /\ Len(ReadBack.tagDefs) = 1
  /\ \E i, j \in 1..Len(images) :
       /\ i # j
       /\ SeqIncludes(images[i].tags, ReadBack.tagDefs[1].tag)
       /\ SeqIncludes(images[j].tags, ReadBack.tagDefs[1].tag)
       /\ NonEmpty(ReadBack.tagDefs[1].title1)

UniqueKeys(defs) == \A i, j \in 1..Len(defs) : defs[i].tag = defs[j].tag => i = j

\* A value as a definition holds it: '' for one that is absent
Shown(v) == IF v = Undefined THEN <<>> ELSE v

\* One place of a source where a tag key is given titles
Occurrence(tag, title1, title2) == [tag |-> tag, title1 |-> title1, title2 |-> title2]

\* The elements of the short_point arrays of a pasted text, in traversal order
RECURSIVE PointsOf(_)
PointsOf(items) ==
  IF items = <<>> THEN <<>>
  ELSE (IF Head(items).isArray
        THEN [k \in 1..Len(Head(items).points) |->
                Occurrence(Head(items).points[k].tag, Shown(Head(items).points[k].title1),
                           Shown(Head(items).points[k].title2))]
        ELSE <<>>) \o PointsOf(Tail(items))

\* The tag names of the records of a flat file that have a url, in record order
FlatOccurrences(json) ==
  LET HasUrl(row) == NonEmpty(row.image_url)
      rows == Only(json, HasUrl)
  IN  [k \in 1..Len(rows) |->
         Occurrence(IF NonEmpty(rows[k].tagname) THEN rows[k].tagname ELSE rows[k].tag_name,
                    Shown(rows[k].title1), Shown(rows[k].title2))]

\* The embedded tag entries of the records of a legacy file, in record order
RECURSIVE LegacyOccurrences(_)
LegacyOccurrences(json) ==
  IF json = <<>> THEN <<>>
  ELSE (IF Head(json).tags.isArray
        THEN [k \in 1..Len(Head(json).tags.items) |->
                LET t == Head(json).tags.items[k]
                IN  IF t.isString THEN Occurrence(t.tag, <<>>, <<>>)
                    ELSE Occurrence(t.tag, Shown(t.title1), Shown(t.title2))]
        ELSE <<>>) \o LegacyOccurrences(Tail(json))

\* Each definition has the titles of the first place the source gives its key
FirstKept(defs, source) ==
  \A d \in 1..Len(defs) :
    \E k \in 1..Len(source) :
      /\ source[k].tag = defs[d].tag
      /\ \A j \in 1..(k - 1) : source[j].tag # defs[d].tag
      /\ defs[d].title1 = source[k].title1
      /\ defs[d].title2 = source[k].title2

\* C7: in every reachable state the definition list (tagDefs, and parsedTags
\* from which a manual start takes it) holds each tag key at most once, and the
\* definitions a pasted text, a flat file or a legacy file gave are those of the
\* first occurrence of each key in it.
C7_UniqueTagKeys ==
  /\ UniqueKeys(tagDefs)
  /\ UniqueKeys(parsedTags)
  /\ last.op = "parse" /\ last.error = "none" /\ ~last.text.blank
       => FirstKept(parsedTags, PointsOf(last.text.root.items))
  /\ last.op = "jsonOnload" /\ last.error = "none"
       => FirstKept(tagDefs, IF isFlatFormat(last.file.records)
                             THEN FlatOccurrences(last.file.records)
                             ELSE LegacyOccurrences(last.file.records))

\* A pasted text that gives one key twice with different titles has been parsed
C7_Witness ==
  /\ last.op = "parse"
  /\ last.error = "none"
  /\ Len(parsedTags) = 1
  /\ \E j, k \in 1..Len(PointsOf(last.text.root.items)) :
       /\ j < k
       /\ PointsOf(last.text.root.items)[j].tag = PointsOf(last.text.root.items)[k].tag
       /\ PointsOf(last.text.root.items)[j].title1 # PointsOf(last.text.root.items)[k].title1

\* C8: handleExport emits records in image order, one record with empty tag
\* name, title1 and title2 for an image without tags and one record per tag, in
\* tag order, for a tagged image, so that their number is the sum over the
\* images of max(1, number of tags); a tag's record carries the title1 and
\* title2 of the definition with that key, or '' when there is none.
C8_Serialize ==
  pc = "exported" =>
    /\ ret.kind = "array"
    /\ Len(ret.records) = OffsetOf(arg.images, Len(arg.images) + 1)
    /\ \A i \in 1..Len(arg.images) : \A k \in 1..RecordsOf(arg.images[i]) :
         LET n == OffsetOf(arg.images, i) + k
             tags == arg.images[i].tags
         IN  n <= Len(ret.records) =>
               /\ ret.records[n].image_url = arg.images[i].url
               /\ ret.records[n].tagname = IF tags = <<>> THEN <<>> ELSE tags[k]
               /\ ret.records[n].title1 =
                    IF tags = <<>> THEN <<>> ELSE FieldOf(arg.tagDefs, tags[k], "title1")
               /\ ret.records[n].title2 =
                    IF tags = <<>> THEN <<>> ELSE FieldOf(arg.tagDefs, tags[k], "title2")

\* An untagged image followed by one with a defined and a dangling tag was exported
C8_Witness ==
  /\ pc = "exported"
  /\ Len(arg.images) = 2
  /\ arg.images[1].tags = <<>>
  /\ arg.images[2].tags = <<tA, tB>>
  /\ Len(arg.tagDefs) = 1
  /\ Len(ret.records) = 3
  /\ ret.records[2].title1 = T1
  /\ ret.records[3].title1 = <<>>

\* The name a flat record gives its tag
TagNameOf(row) == IF NonEmpty(row.tagname) THEN row.tagname ELSE row.tag_name

\* The first record of json with this url
FirstWith(json, url) ==
  json[CHOOSE k \in 1..Len(json) :
         json[k].image_url = url /\ \A j \in 1..(k - 1) : json[j].image_url # url]

\* The tag names of the records of json with this url, in record order
TagNamesAt(json, url) ==
  LET At(row) == row.image_url = url
      rows == Only(json, At)
  IN  [k \in 1..Len(rows) |-> TagNameOf(rows[k])]

\* C10: a session file is read as flat exactly when its first record has the key
\* "tag name" or tag_name; reading a flat file gives one image per distinct
\* (non-empty) image_url, in order of first occurrence, with hotel_id, hotel_name
\* and image_id of the first record with that url, tagged with the distinct
\* non-blank tag names of the records with that url in record order; a file
\* whose first record has neither key is not grouped.
C10_FlatImport ==
  pc = "imported" =>
    LET json == arg.records
        urls == DistinctIn([k \in 1..Len(json) |-> json[k].image_url], NonEmpty)
        HasUrl(row) == NonEmpty(row.image_url)
    IN  IF json[1].tagname # Undefined \/ json[1].tag_name # Undefined
        THEN /\ ret.called
             /\ UrlsOf(ret.images) = urls
             /\ \A m \in 1..Len(urls) :
                  m <= Len(ret.images) =>
                    /\ ret.images[m].originalImageId = FirstWith(json, urls[m]).image_id
                    /\ ret.images[m].hotelId = FirstWith(json, urls[m]).hotel_id
                    /\ ret.images[m].hotelName = FirstWith(json, urls[m]).hotel_name
                    /\ ret.images[m].tags = DistinctIn(TagNamesAt(json, urls[m]), NonBlank)
        ELSE /\ Len(ret.images) = Len(Only(json, HasUrl))
             /\ \A m \in 1..Len(ret.images) : ret.images[m].tags = <<>>

\* A flat file of two records with one url, different image_id and different
\* tags has been read
C10_Witness ==
  /\ pc = "imported"
  /\ Len(arg.records) = 2
  /\ arg.records[1].image_url = arg.records[2].image_url
  /\ arg.records[1].image_id # arg.records[2].image_id
  /\ Len(ret.images) = 1
  /\ ret.images[1].tags = <<tA, tB>>
  /\ ret.images[1].originalImageId = arg.records[1].image_id

\* The tag keys of the embedded entries of one legacy record
EntryTags(row) ==
  IF row.tags.isArray THEN [k \in 1..Len(row.tags.items) |-> row.tags.items[k].tag] ELSE <<>>

\* C11: reading a legacy file gives one image per record with a url, in record
\* order, tagged with the tag keys of the record's embedded entries (a string
\* itself, an object's tag field); the definitions recovered are the tag keys of
\* the embedded entries of all records, each once in order of first occurrence,
\* with the titles of the first entry bearing the key ('' for a string entry).
C11_LegacyImport ==
  pc = "imported" /\ arg \in LegacyInputs =>
    LET HasUrl(row) == NonEmpty(row.image_url)
        rows == Only(arg.records, HasUrl)
        source == LegacyOccurrences(arg.records)
    IN  Len(rows) > 0 =>
          /\ ret.called
          /\ Len(ret.images) = Len(rows)
          /\ \A m \in 1..Len(rows) :
               m <= Len(ret.images) =>
                 /\ ret.images[m].url = rows[m].image_url
                 /\ ret.images[m].tags = EntryTags(rows[m])
          /\ [d \in 1..Len(ret.tagDefs) |-> ret.tagDefs[d].tag]
               = DistinctIn([k \in 1..Len(source) |-> source[k].tag], Anything)
          /\ FirstKept(ret.tagDefs, source)

\* A record with the entries "A" and {tag: "B", title1: "T"} has been read
C11_Witness ==
  /\ pc = "imported"
  /\ arg \in LegacyInputs
  /\ Len(arg.records) = 1
  /\ arg.records[1].tags.items = <<StringEntry(tA), ObjectEntry(tB, T1)>>
  /\ Len(ret.images) = 1
  /\ ret.images[1].tags = <<tA, tB>>
  /\ ret.tagDefs = <<TagDefinition(tA, <<>>, <<>>, Undefined), TagDefinition(tB, T1, <<>>, <<>>)>>

\* C12: a session file whose content is no non-empty array is refused as
\* EmptyOrInvalidJson, a legacy file without a record with a url as
\* NoValidImages; on every refusal images, tagDefs and step stay as they were.
C12_ImportFailure ==
  [][last'.op = "jsonOnload" =>
       LET file == last'.file
           HasUrl(row) == NonEmpty(row.image_url)
       IN  /\ file.kind = "scalar" \/ (file.kind = "array" /\ Len(file.records) = 0)
                => last'.error = "EmptyOrInvalidJson"
           /\ ( /\ file.kind = "array"
                /\ Len(file.records) > 0
                /\ file.records[1].tagname = Undefined
                /\ file.records[1].tag_name = Undefined
                /\ Len(Only(file.records, HasUrl)) = 0 )
                => last'.error = "NoValidImages"
           /\ last'.error # "none"
                => images' = images /\ tagDefs' = tagDefs /\ step' = step]_vars

\* A legacy file without urls was refused while a session was being labeled
C12_Witness ==
  /\ last.op = "jsonOnload"
  /\ last.error = "NoValidImages"
  /\ step = "labeling"
  /\ Len(images) > 0
  /\ \E i \in 1..Len(images) : Len(images[i].tags) > 0

\* C13: a file that is a non-empty array and is read as flat initializes the
\* session with at least one image.
C13_FlatNeverEmpty ==
  ( /\ pc = "imported"
    /\ arg \in ImportInputs
    /\ arg.records[1].tagname # Undefined \/ arg.records[1].tag_name # Undefined )
    => ret.called /\ Len(ret.images) >= 1

\* The tag keys of a list of definitions or of occurrences, in order
TagKeysOf(seq) == [k \in 1..Len(seq) |-> seq[k].tag]

\* The definitions that the short_point arrays of items give: each non-empty tag
\* once, in order of first occurrence, with the titles of its first occurrence
\* and '' for what that occurrence lacks
ListsFirstSeen(defs, items) ==
  /\ TagKeysOf(defs) = DistinctIn(TagKeysOf(PointsOf(items)), NonEmpty)
  /\ FirstKept(defs, PointsOf(items))
  /\ \A d \in 1..Len(defs) : defs[d].content = <<>>

\* C14: the parser of either variant uses the strict parse of the text unaltered
\* when it succeeds, so that a text that is valid JSON gives the definitions of
\* its strings as written (apostrophes and the words None, True, False kept);
\* a single-quoted text is read after the replacements, and the single-quoted
\* list of one short_point with tag A and title1 T gives the one definition
\* {A, T, '', ''}.
C14_StrictFirst ==
  (pc = "parsed" /\ ~arg.text.blank /\ arg.text.root.shape = "array") =>
     /\ arg.text.dialect = "json" =>
          IF Len(DistinctIn(TagKeysOf(PointsOf(arg.text.root.items)), NonEmpty)) = 0
          THEN ret.tagParseError = "NoTagsFound"
          ELSE /\ ret.tagParseError = "none"
               /\ ListsFirstSeen(ret.parsedTags, arg.text.root.items)
     /\ arg.text = TagText(FALSE, "python", ArrayRoot(<<ShortPoint(<<Point(tA, T1)>>)>>)) =>
          /\ ret.tagParseError = "none"
          /\ ret.parsedTags = <<TagDefinition(tA, T1, <<>>, <<>>)>>

\* C15: the parser of either variant gives for a root object with a short_point
\* array what it gives for the one-element list that wraps the same array, and
\* does not refuse the object for its shape.
C15_BothShapes ==
  (pc = "parsed" /\ ~arg.text.blank /\ arg.text.root.shape = "object") =>
     /\ ret = TagParseEffect(variant, [arg.text EXCEPT !.root.shape = "array"], arg.prevTags)
     /\ ret.tagParseError \notin {"RootNotList", "RootNotListOrObject"}

\* The value the parse of the variant made of the text
ParsedOf(v, text) ==
  IF v = "App" THEN ParseTagTextApp(text) ELSE ParseTagTextPart000(text)

\* C16: when the extraction has run on the parsed value, its output lists every
\* distinct non-empty tag of the short_point arrays exactly once, in first-seen
\* order across the arrays in traversal order, each with the fields of the first
\* element that bears it and '' for absent fields; elements with a missing or
\* empty tag give nothing, and NoTagsFound is reported when there is none.
C16_Extraction ==
  (pc = "parsed" /\ ~arg.text.blank /\ ret.tagParseError \in {"none", "NoTagsFound"}) =>
     LET data == ParsedOf(variant, arg.text).data
         found == DistinctIn(TagKeysOf(PointsOf(data.items)), NonEmpty)
     IN  IF ret.tagParseError = "none"
         THEN Len(found) > 0 /\ ListsFirstSeen(ret.parsedTags, data.items)
         ELSE Len(found) = 0

\* A list of two short_point arrays: a tag given twice in the first, an element
\* without tag, and a second array that repeats the tag and brings a new one
C16_Witness ==
  /\ pc = "parsed"
  /\ arg.text.root = ArrayRoot(<<ShortPoint(<<Point(tA, T1), Point(<<>>, T1)>>),
                                ShortPoint(<<Point(tB, T1), Point(tA, T2)>>)>>)
  /\ ret.parsedTags = <<TagDefinition(tA, T1, <<>>, <<>>), TagDefinition(tB, T1, <<>>, <<>>)>>

\* C17: the parser reports a malformed input when neither parse succeeds or the
\* root is neither a list nor an object, reports NoTagsFound when the parse
\* succeeds and no short_point element gives a tag, and in both cases leaves
\* parsedTags as it was.
C17_ParseErrors ==
  (pc = "parsed" /\ ~arg.text.blank) =>
     LET parsed == ParsedOf(variant, arg.text)
         found == DistinctIn(TagKeysOf(PointsOf(parsed.data.items)), NonEmpty)
     IN  /\ (arg.text.dialect = "invalid" \/ (parsed.ok /\ parsed.data.shape = "scalar"))
              => ret.tagParseError \in {"MalformedInput", "RootNotListOrObject", "RootNotList"}
         /\ (parsed.ok /\ parsed.data.shape \in {"array", "object"} /\ Len(found) = 0)
              => ret.tagParseError = "NoTagsFound"
         /\ ret.tagParseError # "none" => ret.parsedTags = arg.prevTags

\* JSON.stringify of a definition list as a list of one short_point array
Serialized(defs) ==
  TagText(FALSE, "json",
          ArrayRoot(<<ShortPoint([k \in 1..Len(defs) |->
                                    [tag |-> defs[k].tag, title1 |-> defs[k].title1,
                                     title2 |-> defs[k].title2, content |-> defs[k].content]])>>))

ByPriority(keys, patterns) ==
  LET matched == {i \in 1..Len(patterns) : \E j \in 1..Len(keys) : Test(patterns[i], keys[j])}
  IN  IF matched = {} THEN Undefined
      ELSE LET first == CHOOSE i \in matched : \A m \in matched : i <= m
               at == {j \in 1..Len(keys) : Test(patterns[first], keys[j])}
           IN  keys[CHOOSE j \in at : \A m \in at : j <= m]

\* C19: each role resolves to the column that matches the earliest pattern of
\* the role's list, exact names before substrings: the items of a sheet have
\* their url, hotelId, hotelName and originalImageId from these columns, and a
\* sheet with a column image_url has its urls from that column whatever the
\* order of the columns.
C19_PatternPriority ==
  (pc = "resolved" /\ ByPriority(Keys(arg.header, arg.rows[1]), urlPatterns) # Undefined) =>
    LET keys == Keys(arg.header, arg.rows[1])
    IN  /\ ret.ok
        /\ Len(ret.items) = Len(arg.rows)
        /\ \A i \in 1..Len(ret.items) :
             /\ ret.items[i].url = Trim(Cell(arg.header, arg.rows[i], ByPriority(keys, urlPatterns)))
             /\ ret.items[i].hotelId = Cell(arg.header, arg.rows[i], ByPriority(keys, hotelIdPatterns))
             /\ ret.items[i].hotelName = Cell(arg.header, arg.rows[i], ByPriority(keys, hotelNamePatterns))
             /\ ret.items[i].originalImageId = Cell(arg.header, arg.rows[i], ByPriority(keys, imageIdPatterns))
             /\ SeqIncludes(arg.header, s_image_url) => ret.items[i].url = U1

\* C20: the column names match without regard to case and a role that no column
\* matches stays unresolved: a sheet with the columns Image Link, HotelID and
\* Name, in any order, gives items with the url (trimmed), the hotelId and the
\* hotelName of these columns and no originalImageId.
C20_CaseInsensitive ==
  ( /\ pc = "resolved"
    /\ Len(arg.header) = 3
    /\ \A name \in {h_Image_Link, h_HotelID, h_Name} : SeqIncludes(arg.header, name) )
    => /\ ret.ok
       /\ Len(ret.items) = Len(arg.rows)
       /\ \A i \in 1..Len(ret.items) :
            /\ ret.items[i].url = Trim(Cell(arg.header, arg.rows[i], h_Image_Link))
            /\ ret.items[i].hotelId = Cell(arg.header, arg.rows[i], h_HotelID)
            /\ ret.items[i].hotelName =
                 (IF arg.rows[1][CHOOSE j \in 1..3 : arg.header[j] = h_Name] = Undefined
                  THEN Undefined ELSE Cell(arg.header, arg.rows[i], h_Name))
            /\ ret.items[i].originalImageId = Undefined

\* The sheet of the example with two rows was read
C20_Witness ==
  /\ pc = "resolved"
  /\ arg.header = <<h_Image_Link, h_HotelID, h_Name>>
  /\ Len(ret.items) = 2
  /\ ret.items[1].url = U2
  /\ ret.items[1].hotelId = HotelH
  /\ ret.items[2].hotelName = T1
  /\ ret.items[1].originalImageId = Undefined

C22_EntryPoints ==
  [][LET Initialized(suppliedImages, suppliedDefs) ==
           images' = suppliedImages /\ tagDefs' = suppliedDefs /\ step' = "labeling"
     IN  /\ last'.op = "start" => Initialized(loadedImages, parsedTags)
         /\ last'.op = "demo" =>
              Initialized(IF variant = "App" THEN demoImagesApp ELSE demoItemsPart000,
                          IF variant = "App" THEN demoTagsApp ELSE demoTagsPart000)
         /\ (last'.op = "jsonOnload" /\ JsonResults[last'.file].called) =>
              Initialized(JsonResults[last'.file].images, JsonResults[last'.file].tagDefs)]_vars

\* A session file was imported over a session: its images and definitions are
\* all there is
C22_Witness ==
  /\ last.op = "jsonOnload"
  /\ last.error = "none"
  /\ step = "labeling"
  /\ Len(images) > 0
  /\ Len(tagDefs) > 0
  /\ images = JsonResults[last.file].images
  /\ tagDefs = JsonResults[last.file].tagDefs

C24_LastStartedWins ==
  (arg = <<>> /\ ret # <<>> /\ ExcelOnloadResult(ret).ok)
    => loadedImages = ExcelOnloadResult(ret).items

\* C25: on any input, elements that are null and a url that is no string
\* included, tag-text parsing, spreadsheet resolution and session import end in
\* a success or in a reported error; what throws is caught inside the operation
\* and reported, and on every error nothing has changed: parsedTags is what it
\* was, nothing is loaded, onImportSession is not called.
C25_NoThrow ==
  /\ pc = "parsed" =>
       /\ ret.tagParseError \in {"none", "MalformedInput", "RootNotListOrObject", "RootNotList",
                                 "NoTagsFound", "ExtractionThrew"}
       /\ ret.tagParseError # "none" => ret.parsedTags = arg.prevTags
       /\ ( /\ ~arg.text.blank
            /\ arg.text.root.shape = "array"
            /\ \E i \in 1..Len(arg.text.root.items) : arg.text.root.items[i] = Null )
            => ret.tagParseError # "none"
  /\ pc = "imported" =>
       /\ ret.alert \in {"none", "ParseError", "EmptyOrInvalidJson", "NoValidImages"}
       /\ ret.called <=> ret.alert = "none"
       /\ (arg.kind = "array" /\ \E k \in 1..Len(arg.records) : arg.records[k] = Null)
            => ret.alert \in {"ParseError", "EmptyOrInvalidJson"}
  /\ pc = "resolved" =>
       /\ ret.error \in {"none", "ParseFailed", "EmptyInput", "NoUrlColumn", "NoRowsExtracted"}
       /\ ret.ok <=> ret.error = "none"
       /\ ~ret.ok => ret.items = <<>>

\* A session file whose second element is null was refused with the alert of the
\* catch, after a first record that is a good flat record
C25_Witness ==
  /\ pc = "imported"
  /\ Len(arg.records) = 2
  /\ arg.records[1] = FlatRecord(Id7, U1, tA, T1)
  /\ arg.records[2] = Null
  /\ ret.alert = "ParseError"
  /\ ~ret.called

\* C26: a manual start passes to the store the parse result of the tag text as
\* it stands: while the text is in a parse-error state no definitions retained
\* from an earlier text are passed.
C26_StartUsesCurrentText ==
  [][last'.op = "start" => (tagParseError = "none" \/ tagDefs' = <<>>)]_vars

\* C27: while the step is labeling, images and tagDefs change only through a
\* toggle or a confirmed reset; the completion of a session-file read that was
\* started on the setup screen does not replace the session.
C27_LabelingFrame ==
  [][(step = "labeling" /\ (images' # images \/ tagDefs' # tagDefs))
       => last'.op \in {"toggle", "reset"}]_vars

\* Every tag of every image has a definition
NoDangling(imgs, defs) ==
  \A i \in 1..Len(imgs) : \A k \in 1..Len(imgs[i].tags) :
    \E d \in 1..Len(defs) : defs[d].tag = imgs[i].tags[k]

\* The file of this read is an array that is read on the legacy path
ReadAsLegacy(file) ==
  /\ file.kind = "array"
  /\ Len(file.records) > 0
  /\ file.records[1].tagname = Undefined
  /\ file.records[1].tag_name = Undefined

\* C28: no step other than the import of a legacy file makes a tag without a
\* definition: the session is without dangling tags at the start, a manual
\* start, a demo load and a flat import give a session without them, and every
\* toggle of the tag of a definition keeps it so.
C28_NoDanglingTag ==
  [][(NoDangling(images, tagDefs) /\ ~(last'.op = "jsonOnload" /\ ReadAsLegacy(last'.file)))
       => NoDangling(images', tagDefs')]_vars

\* A flat file with tags was imported and a tag toggled on it
C28_Witness ==
  /\ last.op = "toggle"
  /\ Len(tagDefs) > 0
  /\ \E i \in 1..Len(images) :
       /\ StartsWith(images[i].id, s_restored)
       /\ Len(images[i].tags) > 0
  /\ NoDangling(images, tagDefs)

\* C29: on the setup step images and tagDefs are empty.
C29_SetupIsEmpty == step = "setup" => (images = <<>> /\ tagDefs = <<>>)

\* The setup step after a session was reset
C29_Witness ==
  /\ last.op = "reset"
  /\ step = "setup"
  /\ images = <<>>
  /\ tagDefs = <<>>

\* C30: toggling a tag twice on an image whose tag list has no duplicates leaves
\* the image with the same set of tags, and with the same tag list when the tag
\* was absent or last.
C30_ToggleTwice ==
  step = "labeling" =>
    \A i \in 1..Len(images) :
      NoRepeat(images[i].tags) =>
        \A tag \in {tagDefs[d].tag : d \in 1..Len(tagDefs)}
                   \cup {images[i].tags[k] : k \in 1..Len(images[i].tags)} :
          LET before == images[i].tags
              once == toggleTag(images, images[i].id, tag)
              twice == toggleTag(once, images[i].id, tag)[i].tags
          IN  /\ {twice[k] : k \in 1..Len(twice)} = {before[k] : k \in 1..Len(before)}
              /\ (~SeqIncludes(before, tag) \/ before[Len(before)] = tag) => twice = before

\* A tag was toggled on an image that now has two tags, so that the first is
\* neither absent nor last
C30_Witness ==
  /\ last.op = "toggle"
  /\ \E i \in 1..Len(images) :
       /\ images[i].id = last.imageId
       /\ Len(images[i].tags) = 2
       /\ NoRepeat(images[i].tags)

====
